---- MODULE Spec2Model ----
(***************************************************************************)
(* A model of the meter client library: the unit algebra of units.py and   *)
(* the Meter of google_meter.py, which turns register and interval         *)
(* readings into instantaneous or durational measurement events posted to  *)
(* a service.                                                              *)
(*                                                                         *)
(* Python floats are modelled as exact rationals [n, d] in lowest terms.   *)
(* Python's None is modelled by None (in a time slot) and NoneQ (in a      *)
(* Quantity slot).                                                         *)
(***************************************************************************)
EXTENDS Integers, Sequences, FiniteSets, TLC

(* ------------------------------ bounds --------------------------------- *)

\* Times are the multiples 0 .. MaxTick of half an hour, in seconds.
MaxTick == 2

HalfHour == 30 * 60

\* At most MaxCalls readings are posted on the meter.
MaxCalls == 2

Times == { k * HalfHour : k \in 0..MaxTick }

(* ---------------------------- rationals -------------------------------- *)

Abs(x) == IF x < 0 THEN -x ELSE x

RECURSIVE GCD(_, _)
GCD(a, b) == IF b = 0 THEN a ELSE GCD(b, a % b)

\* The rational n/d (d # 0) in lowest terms with a positive denominator.
Rat(n, d) ==
  LET g == GCD(Abs(n), Abs(d))
      s == IF d < 0 THEN -1 ELSE 1
  IN  [n |-> (s * n) \div g, d |-> (s * d) \div g]

RInt(k) == [n |-> k, d |-> 1]

RAdd(x, y) == Rat(x.n * y.d + y.n * x.d, x.d * y.d)

RSub(x, y) == Rat(x.n * y.d - y.n * x.d, x.d * y.d)

\* x * y, cancelling common factors before multiplying.
RMul(x, y) ==
  LET a == Rat(x.n, y.d)
      b == Rat(y.n, x.d)
  IN  Rat(a.n * b.n, a.d * b.d)

\* x / y for y # 0.
RDiv(x, y) == RMul(x, Rat(y.d, y.n))

(* ------------------------------ units.py ------------------------------- *)

SECOND == "s"

WATT == "W"

JOULE == "J"

KILOWATT_HOUR == "kW h"

Units == {SECOND, WATT, JOULE, KILOWATT_HOUR}

\* Unit.factor
factor(u) == IF u = KILOWATT_HOUR THEN 3600 * 1000 ELSE 1

\* Unit.base
base(u) == IF u = KILOWATT_HOUR THEN JOULE ELSE u

\* Unit.products, as the set of pairs <<right, product>> of unit u:
\* the factorization (WATT, SECOND) of JOULE registers both orders.
products(u) ==
  IF u = WATT THEN { <<SECOND, JOULE>> }
  ELSE IF u = SECOND THEN { <<WATT, JOULE>> }
  ELSE {}

\* "other in self.unit.products"
HasProduct(u, other) == \E p \in products(u) : p[1] = other

\* Unit.__mul__ on a declared pair.
UnitMul(u, other) == (CHOOSE p \in products(u) : p[1] = other)[2]

\* Unit.IsConvertibleTo
UnitIsConvertibleTo(u, unit) == base(unit) = base(u)

\* Quantity(value, unit)
Quantity(value, unit) == [unit |-> unit, value |-> value]

\* Python's None where a Quantity is expected.
NoneQ == [unit |-> "None", value |-> RInt(0)]

\* Quantity.IsConvertibleTo
IsConvertibleTo(q, unit) == UnitIsConvertibleTo(q.unit, unit)

\* A faulty ConvertTo: the factors are applied the wrong way round.
ConvertTo_m(q, unit) ==
  IF q = NoneQ THEN [ok |-> FALSE, err |-> "AttributeError", q |-> NoneQ]
  ELSE IF ~IsConvertibleTo(q, unit)
    THEN [ok |-> FALSE, err |-> "AssertionError", q |-> NoneQ]
  ELSE [ok |-> TRUE, err |-> "",
        q |-> Quantity(RDiv(RMul(q.value, RInt(factor(unit))),
                            RInt(factor(q.unit))), unit)]

\* Quantity.ConvertTo: the assert fails (ok = FALSE) when the units do not
\* share a base; calling it on None raises as well.
ConvertTo(q, unit) ==
  IF q = NoneQ THEN [ok |-> FALSE, err |-> "AttributeError", q |-> NoneQ]
  ELSE IF ~IsConvertibleTo(q, unit)
    THEN [ok |-> FALSE, err |-> "AssertionError", q |-> NoneQ]
  ELSE [ok |-> TRUE, err |-> "",
        q |-> Quantity(RDiv(RMul(q.value, RInt(factor(q.unit))),
                            RInt(factor(unit))), unit)]

\* A faulty QAdd: the right operand is relabelled, not converted.
QAdd_m(a, b) ==
  IF ~ConvertTo(b, a.unit).ok THEN ConvertTo(b, a.unit)
  ELSE [ok |-> TRUE, err |-> "",
        q |-> Quantity(RAdd(a.value, b.value), a.unit)]

\* Quantity.__add__
QAdd(a, b) ==
  LET other == ConvertTo(b, a.unit)
  IN  IF ~other.ok THEN other
      ELSE [ok |-> TRUE, err |-> "",
            q |-> Quantity(RAdd(a.value, other.q.value), a.unit)]

\* Quantity.__sub__
QSub(a, b) ==
  LET other == ConvertTo(b, a.unit)
  IN  IF ~other.ok THEN other
      ELSE [ok |-> TRUE, err |-> "",
            q |-> Quantity(RSub(a.value, other.q.value), a.unit)]

\* Quantity.__mul__ with a scalar.
QMulScalar(q, s) == Quantity(RMul(q.value, s), q.unit)

\* Quantity.__mul__ with a Quantity: None (NoneQ) when the pair of units has
\* no declared product.
QMulQuantity(q, other) ==
  IF HasProduct(q.unit, other.unit)
    THEN Quantity(RMul(q.value, other.value), UnitMul(q.unit, other.unit))
    ELSE NoneQ

\* Unit.quotients, as the set of pairs <<divisor, quotient>> of unit u:
\* the factorization (WATT, SECOND) of JOULE registers both divisors.
quotients(u) ==
  IF u = JOULE THEN { <<WATT, SECOND>>, <<SECOND, WATT>> } ELSE {}

\* "other in self.unit.quotients"
HasQuotient(u, other) == \E p \in quotients(u) : p[1] = other

\* Unit.__div__ on a declared pair.
UnitDiv(u, other) == (CHOOSE p \in quotients(u) : p[1] = other)[2]

\* The operands and results of the operators: a number, a Unit, a Quantity
\* or None.
ScalarV(x) == [unit |-> "", value |-> x, kind |-> "scalar"]

UnitV(u) == [unit |-> u, value |-> RInt(1), kind |-> "unit"]

QuantityV(q) == [unit |-> q.unit, value |-> q.value, kind |-> "quantity"]

NoneV == [unit |-> "", value |-> RInt(0), kind |-> "None"]

\* What a call did: it returned val, raised err, or (inside __div__) went on
\* to divide `next` by the same operand.
Returned(val) ==
  [err |-> "", val |-> val, status |-> "returned", next |-> NoneQ]

Raised(err) ==
  [err |-> err, val |-> NoneV, status |-> "raised", next |-> NoneQ]

Recurse(q) ==
  [err |-> "", val |-> NoneV, status |-> "running", next |-> q]

\* q.ConvertTo(unit) as a call.
ConvertToCall(q, unit) ==
  LET c == ConvertTo(q, unit)
  IN  IF c.ok THEN Returned(QuantityV(c.q)) ELSE Raised(c.err)

\* a + b as a call.
AddCall(a, b) ==
  LET c == QAdd(a, b)
  IN  IF c.ok THEN Returned(QuantityV(c.q)) ELSE Raised(c.err)

\* Quantity.__mul__: a pair of units without a declared product falls off
\* the end of the method, which returns None.
QMul(self, other) ==
  IF other.kind = "scalar"
    THEN Returned(QuantityV(QMulScalar(self, other.value)))
  ELSE IF other.kind = "unit"
    THEN IF HasProduct(self.unit, other.unit)
           THEN Returned(QuantityV(Quantity(self.value,
                                            UnitMul(self.unit, other.unit))))
           ELSE Returned(NoneV)
  ELSE IF HasProduct(self.unit, other.unit)
    THEN Returned(QuantityV(QMulQuantity(self, other)))
    ELSE Returned(NoneV)

\* One execution of the body of Quantity.__div__: float division by 0.0
\* raises; the last line converts self to its base unit and divides again.
QDiv(self, other) ==
  IF other.kind = "unit" /\ HasQuotient(self.unit, other.unit)
    THEN Returned(QuantityV(Quantity(self.value,
                                     UnitDiv(self.unit, other.unit))))
  ELSE IF other.kind = "quantity" /\ HasQuotient(self.unit, other.unit)
    THEN IF other.value = RInt(0) THEN Raised("ZeroDivisionError")
         ELSE Returned(QuantityV(Quantity(RDiv(self.value, other.value),
                                          UnitDiv(self.unit, other.unit))))
  ELSE IF other.kind = "quantity" /\ other.unit = self.unit
    THEN IF other.value = RInt(0) THEN Raised("ZeroDivisionError")
         ELSE Returned(ScalarV(RDiv(self.value, other.value)))
  ELSE Recurse(ConvertTo(self, base(self.unit)).q)

(* ----------------------------- rfc3339.py ------------------------------ *)

\* Python's None where a time is expected.
None == -1

\* rfc3339.ToTimestamp: the timestamp's fields <<day, hour, minute, second,
\* millisecond>> (days since the epoch stand for the calendar date); for
\* None, "unix_time * 1000" raises TypeError.
ToTimestamp(unix_time) ==
  IF unix_time = None THEN [ok |-> FALSE, err |-> "TypeError", ts |-> <<>>]
  ELSE [ok |-> TRUE, err |-> "",
        ts |-> << unix_time \div 86400, (unix_time % 86400) \div 3600,
                  (unix_time % 3600) \div 60, unix_time % 60,
                  unix_time * 1000 - unix_time * 1000 >>]

(* --------------------------- google_meter.py --------------------------- *)

\* InstMeasurement.__init__: the constructor raises when its id cannot be
\* computed.
InstMeasurement(subject, occur_time, quantity, occur_time_uncertainty, quantity_uncertainty, initial) ==
  LET id == ToTimestamp(occur_time)
  IN  [ok |-> id.ok, err |-> id.err,
       ev |-> [kind |-> "instMeasurement",
               subject_path |-> subject,
               occur_time |-> occur_time,
               quantity |-> quantity,
               occur_time_uncertainty |-> occur_time_uncertainty,
               quantity_uncertainty |-> quantity_uncertainty,
               initial |-> initial,
               id |-> id.ts]]

\* DurMeasurement.__init__: the id is computed from start_time.
DurMeasurement(subject, start_time, end_time, quantity, start_time_uncertainty, end_time_uncertainty, quantity_uncertainty) ==
  LET id == ToTimestamp(start_time)
  IN  [ok |-> id.ok, err |-> id.err,
       ev |-> [kind |-> "durMeasurement",
               subject_path |-> subject,
               start_time |-> start_time,
               end_time |-> end_time,
               quantity |-> quantity,
               start_time_uncertainty |-> start_time_uncertainty,
               end_time_uncertainty |-> end_time_uncertainty,
               quantity_uncertainty |-> quantity_uncertainty,
               id |-> id.ts]]

\* A faulty PostDur: an instantaneous measurement at the end of the interval.
PostDur_m(m, start_time, end_time, quantity, uncertainty) ==
  InstMeasurement(m.variable, end_time, quantity,
                  m.time_uncertainty, uncertainty, FALSE)

\* Meter.PostDur, up to the call of service.PostEvent.
PostDur(m, start_time, end_time, quantity, uncertainty) ==
  DurMeasurement(m.variable, start_time, end_time, quantity,
                 m.time_uncertainty, m.time_uncertainty, uncertainty)

\* Meter.PostInst, up to the call of service.PostEvent.
PostInst(m, occur_time, quantity, uncertainty, initial) ==
  InstMeasurement(m.variable, occur_time, quantity,
                  m.time_uncertainty, uncertainty, initial)

\* The PostDur/PostInst calls of one reading, run in order: each builds its
\* event and hands it to service.PostEvent. `fail` is the index of the
\* PostEvent call that the service fails (0: none). The first call that
\* raises ends the reading; the events before it have been delivered.
PostEvent(plan, fail) ==
  LET bad == { i \in 1..Len(plan) : ~plan[i].ok \/ i = fail }
  IN  IF bad = {}
        THEN [ok |-> TRUE, err |-> "",
              events |-> [i \in 1..Len(plan) |-> plan[i].ev]]
        ELSE LET k == CHOOSE i \in bad : \A j \in bad : i <= j
             IN  [ok |-> FALSE,
                  err |-> IF ~plan[k].ok THEN plan[k].err ELSE "IOError",
                  events |-> [i \in 1..(k - 1) |-> plan[i].ev]]

\* "if uncertainty is None: uncertainty = self.uncertainty"
DefaultUncertainty(m, uncertainty) ==
  IF uncertainty = NoneQ THEN m.uncertainty ELSE uncertainty

\* A faulty RegisterInitial: the test is inverted.
RegisterInitial_m(m) == m.last_read_time # None

\* "initial = (self.last_read_time is None)"
RegisterInitial(m) == m.last_read_time = None

\* A faulty RegisterDurUncertainty: the uncertainty is not doubled.
RegisterDurUncertainty_m(uncertainty) == uncertainty

\* "uncertainty * 2", the uncertainty of a durational register event.
RegisterDurUncertainty(uncertainty) == QMulScalar(uncertainty, RInt(2))

\* The events PostRegisterReading posts, given the converted reading.
RegisterPlan(m, new_register, uncertainty, read_time) ==
  IF m.durational
    THEN IF m.last_read_time # None
           THEN LET delta == QSub(new_register, m.register)
                IN  << IF delta.ok
                         THEN PostDur(m, m.last_read_time, read_time, delta.q,
                                      RegisterDurUncertainty(uncertainty))
                         ELSE [ok |-> FALSE, err |-> delta.err, ev |-> <<>>] >>
           ELSE << >>
    ELSE << PostInst(m, read_time, new_register, uncertainty,
                     RegisterInitial(m)) >>


\* A faulty Advance: last_read_time is not advanced.
Advance_m(m, new_register, time) == [m EXCEPT !.register = new_register]

\* "self.register = new_register; self.last_read_time = read_time"
Advance(m, new_register, time) ==
  [m EXCEPT !.register = new_register, !.last_read_time = time]

\* A faulty Commit: the register is advanced before the events are posted.
Commit_m(m, ok, new_register, time) == Advance(m, new_register, time)

\* "Advance the register" is the last statement of a reading: it runs only
\* when nothing before it raised.
Commit(m, ok, new_register, time) ==
  IF ok THEN Advance(m, new_register, time) ELSE m

\* Meter.PostRegisterReading: the outcome of one call on meter m.
RegisterOutcome(m, quantity, uncertainty_arg, read_time, fail) ==
  LET uncertainty == DefaultUncertainty(m, uncertainty_arg)
      new_register == ConvertTo(quantity, KILOWATT_HOUR)
  IN  IF ~new_register.ok
        THEN [ok |-> FALSE, err |-> new_register.err, events |-> <<>>,
              meter |-> m]
        ELSE LET sent == PostEvent(RegisterPlan(m, new_register.q, uncertainty,
                                                read_time), fail)
             IN  [ok |-> sent.ok, err |-> sent.err, events |-> sent.events,
                  meter |-> Commit(m, sent.ok, new_register.q, read_time)]

\* "if start_time is None: start_time = self.last_read_time"
DefaultStart(m, start_time) ==
  IF start_time = None THEN m.last_read_time ELSE start_time

\* "not start_time": true of None and of the number 0.
NotStart(start_time) == start_time = None \/ start_time = 0

\* "(end_time - start_time) * units.SECOND": Unit.__rmul__ makes a Quantity.
Elapsed(start_time, end_time) == Quantity(RInt(end_time - start_time), SECOND)

\* The local variable `quantity` after the register computation: a power
\* reading is multiplied by the elapsed time when start_time is truthy.
IntervalQuantity(quantity, start_time, end_time) ==
  IF NotStart(start_time) THEN quantity
  ELSE IF IsConvertibleTo(quantity, WATT)
    THEN QMulQuantity(quantity, Elapsed(start_time, end_time))
  ELSE quantity

\* "Compute the new register value."
IntervalNewRegister(m, quantity, start_time, end_time) ==
  IF NotStart(start_time)
    THEN [ok |-> TRUE, err |-> "", q |-> m.register]
    ELSE QAdd(m.register, IntervalQuantity(quantity, start_time, end_time))

\* A faulty PostsStartEvent: the start event is always posted.
PostsStartEvent_m(m, start_time) == TRUE

\* "if start_time != self.last_read_time", the start event of a later
\* interval reading.
PostsStartEvent(m, start_time) == start_time # m.last_read_time

\* The events PostIntervalReading posts; start_time is after defaulting and
\* quantity is the local variable after the register computation.
IntervalPlan(m, quantity, new_register, uncertainty, start_time, end_time) ==
  IF m.durational
    THEN << PostDur(m, start_time, end_time, quantity, uncertainty) >>
  ELSE IF m.last_read_time = None
    THEN IF start_time = None
           THEN << PostInst(m, end_time, m.register, uncertainty, TRUE) >>
           ELSE << PostInst(m, start_time, m.register, uncertainty, TRUE),
                   PostInst(m, end_time, new_register, uncertainty, FALSE) >>
  ELSE (IF PostsStartEvent(m, start_time)
          THEN << PostInst(m, start_time, m.register, uncertainty, TRUE) >>
          ELSE << >>)
       \o << PostInst(m, end_time, new_register, uncertainty, FALSE) >>

\* A faulty IntervalReadTime: the meter remembers the start of the interval.
IntervalReadTime_m(start_time, end_time) == start_time

\* "self.last_read_time = end_time", the time PostIntervalReading commits.
IntervalReadTime(start_time, end_time) == end_time

\* Meter.PostIntervalReading: the outcome of one call on meter m.
IntervalOutcome(m, quantity_arg, uncertainty_arg, start_arg, end_time, fail) ==
  LET start_time == DefaultStart(m, start_arg)
      uncertainty == DefaultUncertainty(m, uncertainty_arg)
      new_register == IntervalNewRegister(m, quantity_arg, start_time, end_time)
      quantity == IntervalQuantity(quantity_arg, start_time, end_time)
  IN  IF ~new_register.ok
        THEN [ok |-> FALSE, err |-> new_register.err, events |-> <<>>,
              meter |-> m]
        ELSE LET sent == PostEvent(IntervalPlan(m, quantity, new_register.q,
                                     uncertainty, start_time, end_time), fail)
             IN  [ok |-> sent.ok, err |-> sent.err, events |-> sent.events,
                  meter |-> Commit(m, sent.ok, new_register.q,
                                   IntervalReadTime(start_time, end_time))]

\* A faulty ResetMeter: the register is cleared as well.
ResetMeter_m(m) ==
  [m EXCEPT !.last_read_time = None,
            !.register = Quantity(RInt(0), KILOWATT_HOUR)]

\* Meter.Reset
ResetMeter(m) == [m EXCEPT !.last_read_time = None]

(* ------------------------------- inputs -------------------------------- *)

\* The readings: 2 kW h given in joules, 2 kW (KILOWATT is the Quantity
\* 1000 W, so a power reading is always in W), and a time, which is neither
\* energy nor power.
EnergyReading == Quantity(RInt(7200000), JOULE)

PowerReading == Quantity(RInt(2000), WATT)

TimeReading == Quantity(RInt(5), SECOND)

\* An explicit uncertainty argument: 0.1 kW h given in joules.
ExplicitUncertainty == Quantity(RInt(360000), JOULE)

\* The <<quantity, uncertainty>> arguments of a reading; the uncertainty is
\* omitted (NoneQ) or explicit. No code path looks at both, so the explicit
\* uncertainty comes with one of the readings only.
ReadingArgs ==
  { << EnergyReading, NoneQ >>, << EnergyReading, ExplicitUncertainty >>,
    << PowerReading, NoneQ >>, << TimeReading, NoneQ >> }

\* The index of the service.PostEvent call that fails (0: none fails).
Failures == 0..2

(* ------------------------------- state --------------------------------- *)

VARIABLES
  meter,    \* the Meter object's fields
  posted,   \* the events the service received during the latest call
  call,     \* the latest call on the meter: arguments, outcome, meter before
  ncalls,   \* the number of readings posted so far, failed ones included
  reads,    \* the number of readings that succeeded so far
  calc,     \* the latest call of an operator of units.py
  batch,    \* the latest call of Service.BatchPostEvents
  emitted,  \* the occur times of the events of a run of contiguous readings
  adapter   \* the BatchAdapter object

vars == << meter, posted, call, ncalls, reads, calc, batch, emitted, adapter >>

\* No operator of units.py has been called.
IdleCalc ==
  [ other |-> NoneV, err |-> "", val |-> NoneV, status |-> "returned",
    next |-> NoneQ, self |-> NoneQ, op |-> "none", depth |-> 0 ]

\* BatchPostEvents has not been called.
IdleBatch ==
  [ events |-> << >>, event_list |-> << >>, posts |-> << >>, pc |-> "idle" ]

\* BatchAdapter.__init__: "self.events = []". redo holds the events that a
\* Flush delivered before the service failed.
IdleAdapter == [ events |-> << >>, pc |-> "new", redo |-> << >> ]

\* The calls so far are not a run of successful contiguous interval
\* readings: their events are not recorded.
NotContiguous == [ ok |-> FALSE, times |-> << >> ]

\* No call yet: the run of contiguous interval readings is empty.
NoneEmitted == [ ok |-> TRUE, times |-> << >> ]

\* Meter.__init__: the register starts at 0.0 kW h; last_read_time is the
\* optional seed.
NewMeter(durational, last_read_time) ==
  [ variable |-> "/user/u/d/variable/v",
    uncertainty |-> Quantity(Rat(1, 2), KILOWATT_HOUR),
    time_uncertainty |-> 1,
    durational |-> durational,
    register |-> QMulScalar(Quantity(RInt(1), KILOWATT_HOUR), RInt(0)),
    last_read_time |-> last_read_time ]

\* The seed last_read_time a Meter is constructed with: none, or a time.
Seeds == { None, HalfHour }

Call(op, quantity, uncertainty, start_time, time, out, before) ==
  [ op |-> op, quantity |-> quantity, uncertainty |-> uncertainty,
    start_time |-> start_time, time |-> time,
    ok |-> out.ok, err |-> out.err, before |-> before ]

Init ==
  /\ \E durational \in BOOLEAN, seed \in Seeds :
       meter = NewMeter(durational, seed)
  /\ reads = 0
  /\ posted = << >>
  /\ call = Call("new", NoneQ, NoneQ, None, None,
                 [ok |-> TRUE, err |-> ""], meter)
  /\ ncalls = 0
  /\ calc = IdleCalc
  /\ batch = IdleBatch
  /\ emitted = NotContiguous
  /\ adapter = IdleAdapter

\* The interval reading (start_time, end_time) on meter m continues a run of
\* contiguous readings: its start, after defaulting, is the end of the
\* previous reading, if there was one, and its end is later.
Contiguous(m, start_time, end_time) ==
  LET start == DefaultStart(m, start_time)
  IN  /\ start # None
      /\ start < end_time
      /\ m.last_read_time # None => start = m.last_read_time

\* The occur times of the events of a run of successful contiguous interval
\* readings, in the order the service received them; any other call ends the
\* run.
Emit(log, op, m, start_time, end_time, out) ==
  IF log.ok /\ ~m.durational /\ op = "PostIntervalReading" /\ out.ok
       /\ Contiguous(m, start_time, end_time)
    THEN [ ok |-> TRUE,
           times |-> log.times \o [i \in 1..Len(out.events) |->
                                      out.events[i].occur_time] ]
    ELSE NotContiguous

\* A reading: the outcome `out` of the call is committed. A failure index
\* beyond the calls the reading makes to service.PostEvent is no failure.
Finish(op, quantity, uncertainty, start_time, time, fail, out) ==
  /\ fail <= Len(out.events) + 1
  /\ fail # 0 => ~out.ok
  /\ meter' = out.meter
  /\ posted' = out.events
  /\ call' = Call(op, quantity, uncertainty, start_time, time, out, meter)
  /\ ncalls' = ncalls + 1
  /\ reads' = IF out.ok THEN reads + 1 ELSE reads
  /\ emitted' = Emit(emitted, op, meter, start_time, time, out)
  /\ UNCHANGED << calc, batch, adapter >>

\* Meter.Reset. A Reset directly after a Reset changes nothing and is left
\* out.
Reset ==
  /\ call.op # "Reset"
  /\ meter' = ResetMeter(meter)
  /\ posted' = << >>
  /\ call' = Call("Reset", NoneQ, NoneQ, None, None,
                  [ok |-> TRUE, err |-> ""], meter)
  /\ emitted' = NotContiguous
  /\ UNCHANGED << ncalls, reads, calc, batch, adapter >>

\* read_time is the argument, or the clock's time when it is omitted.
PostRegisterReading ==
  /\ ncalls < MaxCalls
  /\ \E args \in ReadingArgs, read_time \in Times, fail \in Failures :
       \E out \in { RegisterOutcome(meter, args[1], args[2], read_time,
                                    fail) } :
           Finish("PostRegisterReading", args[1], args[2], None, read_time,
                  fail, out)

\* end_time is the argument, or the clock's time when it is omitted.
PostIntervalReading ==
  /\ ncalls < MaxCalls
  /\ \E args \in ReadingArgs, start_time \in {None} \cup Times,
        end_time \in Times, fail \in Failures :
       \E out \in { IntervalOutcome(meter, args[1], args[2], start_time,
                                    end_time, fail) } :
           Finish("PostIntervalReading", args[1], args[2], start_time,
                  end_time, fail, out)

Next == Reset \/ PostRegisterReading \/ PostIntervalReading

Spec == Init /\ [][Next]_vars

(* ----------------- a run of contiguous interval readings ---------------- *)

\* An instantaneous Meter constructed without a seed last_read_time; the
\* occur times of the events of its interval readings are recorded.
ContiguousInit ==
  /\ meter = NewMeter(FALSE, None)
  /\ reads = 0
  /\ posted = << >>
  /\ call = Call("new", NoneQ, NoneQ, None, None,
                 [ok |-> TRUE, err |-> ""], meter)
  /\ ncalls = 0
  /\ calc = IdleCalc
  /\ batch = IdleBatch
  /\ emitted = NoneEmitted
  /\ adapter = IdleAdapter

ContiguousNext == PostIntervalReading

ContiguousSpec == ContiguousInit /\ [][ContiguousNext]_vars

(* ------------------------ the operators of units.py -------------------- *)

\* Python's recursion limit, capped: the depth of nested calls at which the
\* interpreter raises RuntimeError.
MaxDepth == 3

\* The float values of the operands.
Values == { RInt(0), RInt(3), Rat(1, 2), RInt(-2) }

Quantities == { Quantity(v, u) : v \in Values, u \in Units }

\* The right operands of * and /: numbers, Units and Quantities.
Operands ==
  { ScalarV(v) : v \in Values } \cup { UnitV(u) : u \in Units }
    \cup { QuantityV(q) : q \in Quantities }

\* The meter is not used while the operators are exercised.
UnitsInit ==
  /\ meter = NewMeter(FALSE, None)
  /\ reads = 0
  /\ posted = << >>
  /\ call = Call("new", NoneQ, NoneQ, None, None,
                 [ok |-> TRUE, err |-> ""], meter)
  /\ ncalls = 0
  /\ calc = IdleCalc
  /\ batch = IdleBatch
  /\ emitted = NotContiguous
  /\ adapter = IdleAdapter

\* A call of an operator on self and other, once the previous one is over.
Calc(op, self, other, out) ==
  /\ calc.status # "running"
  /\ calc' = [ other |-> other, err |-> out.err, val |-> out.val,
               status |-> out.status, next |-> out.next, self |-> self,
               op |-> op, depth |-> 0 ]
  /\ UNCHANGED << meter, posted, call, ncalls, reads, batch, emitted, adapter >>

\* q.ConvertTo(unit)
DoConvertTo ==
  \E q \in Quantities, unit \in Units :
    Calc("ConvertTo", q, UnitV(unit), ConvertToCall(q, unit))

\* a + b
DoAdd ==
  \E a \in Quantities, b \in Quantities :
    Calc("add", a, QuantityV(b), AddCall(a, b))

\* self * other
DoMul ==
  \E self \in Quantities, other \in Operands :
    Calc("mul", self, other, QMul(self, other))

\* self / other: the outermost execution of __div__.
DoDiv ==
  \E self \in Quantities, other \in Operands :
    Calc("div", self, other, QDiv(self, other))

\* "self.ConvertTo(self.unit.base) / other": the nested call of __div__ on
\* the converted quantity, or RuntimeError at the recursion limit.
DivAgain ==
  /\ calc.status = "running"
  /\ IF calc.depth >= MaxDepth
       THEN calc' = [calc EXCEPT !.status = "raised", !.err = "RuntimeError",
                                 !.next = NoneQ]
       ELSE LET out == QDiv(calc.next, calc.other)
            IN  calc' = [calc EXCEPT !.depth = calc.depth + 1,
                                     !.status = out.status, !.err = out.err,
                                     !.val = out.val, !.next = out.next]
  /\ UNCHANGED << meter, posted, call, ncalls, reads, batch, emitted, adapter >>

UnitsNext == DoConvertTo \/ DoAdd \/ DoMul \/ DoDiv \/ DivAgain

UnitsSpec == UnitsInit /\ [][UnitsNext]_vars

(* ----------------------- Service.BatchPostEvents ----------------------- *)

\* "Max number of events we'll post at a time."
MAX_BATCH_POST_COUNT == 100

\* BatchPostEvents is called with at most MaxEvents events.
MaxEvents == 250

Min(a, b) == IF a < b THEN a ELSE b

\* The caller's list of n events; an event is known by its position in it.
EventsOf(n) == [i \in 1..n |-> i]

\* "sublist = event_list[0:MAX_BATCH_POST_COUNT]"
Sublist(event_list) ==
  SubSeq(event_list, 1, Min(MAX_BATCH_POST_COUNT, Len(event_list)))

\* A faulty Rest: the slice starts one event late.
Rest_m(event_list) ==
  SubSeq(event_list, MAX_BATCH_POST_COUNT + 2, Len(event_list))

\* "event_list = event_list[MAX_BATCH_POST_COUNT:]"
Rest(event_list) ==
  SubSeq(event_list, MAX_BATCH_POST_COUNT + 1, Len(event_list))

\* Neither the meter nor units.py is used while events are batch-posted.
BatchInit ==
  /\ meter = NewMeter(FALSE, None)
  /\ reads = 0
  /\ posted = << >>
  /\ call = Call("new", NoneQ, NoneQ, None, None,
                 [ok |-> TRUE, err |-> ""], meter)
  /\ ncalls = 0
  /\ calc = IdleCalc
  /\ batch = IdleBatch
  /\ emitted = NotContiguous
  /\ adapter = IdleAdapter

\* A call of BatchPostEvents(events): "event_list = list(events)".
BatchPostEvents ==
  /\ batch.pc # "loop"
  /\ \E n \in 0..MaxEvents :
       batch' = [ events |-> EventsOf(n), event_list |-> EventsOf(n),
                  posts |-> << >>, pc |-> "loop" ]
  /\ UNCHANGED << meter, posted, call, ncalls, reads, calc, emitted, adapter >>

\* One iteration of the while loop: the sublist is cut off the local list and
\* posted; when ToXml or PostXml raises, the call ends there.
PostXml ==
  /\ batch.pc = "loop"
  /\ batch.event_list # << >>
  /\ \E ok \in BOOLEAN :
       batch' = [ batch EXCEPT
                    !.event_list = Rest(batch.event_list),
                    !.posts = IF ok
                                THEN Append(@, Sublist(batch.event_list))
                                ELSE @,
                    !.pc = IF ok THEN "loop" ELSE "raised" ]
  /\ UNCHANGED << meter, posted, call, ncalls, reads, calc, emitted, adapter >>

\* "while event_list:" finds the list empty and the method returns.
BatchReturn ==
  /\ batch.pc = "loop"
  /\ batch.event_list = << >>
  /\ batch' = [batch EXCEPT !.pc = "done"]
  /\ UNCHANGED << meter, posted, call, ncalls, reads, calc, emitted, adapter >>

BatchNext == BatchPostEvents \/ PostXml \/ BatchReturn

BatchSpec == BatchInit /\ [][BatchNext]_vars

(* ----------------------------- BatchAdapter ---------------------------- *)

\* The events the service received in the posts, in order.
RECURSIVE Flatten(_)
Flatten(posts) ==
  IF posts = << >> THEN << >> ELSE Head(posts) \o Flatten(Tail(posts))

AdapterInit ==
  /\ meter = NewMeter(FALSE, None)
  /\ reads = 0
  /\ posted = << >>
  /\ call = Call("new", NoneQ, NoneQ, None, None,
                 [ok |-> TRUE, err |-> ""], meter)
  /\ ncalls = 0
  /\ calc = IdleCalc
  /\ batch = IdleBatch
  /\ emitted = NotContiguous
  /\ adapter = IdleAdapter

\* A faulty Queued: the event is put at the head of the queue.
Queued_m(events, event) == << event >> \o events

\* "self.events.append(event)"
Queued(events, event) == Append(events, event)

\* BatchAdapter.PostEvent; an event is known by its position in the queue.
AdapterPostEvent ==
  /\ adapter.pc # "Flush"
  /\ Len(adapter.events) < MaxEvents
  /\ adapter' = [ adapter EXCEPT
                    !.events = Queued(@, Len(@) + 1),
                    !.pc = "PostEvent" ]
  /\ UNCHANGED << meter, posted, call, ncalls, reads, calc, batch, emitted >>

\* BatchAdapter.Flush calls self.service.BatchPostEvents(self.events).
Flush ==
  /\ adapter.pc # "Flush"
  /\ adapter' = [adapter EXCEPT !.pc = "Flush"]
  /\ batch' = [ events |-> adapter.events, event_list |-> adapter.events,
                posts |-> << >>, pc |-> "loop" ]
  /\ UNCHANGED << meter, posted, call, ncalls, reads, calc, emitted >>

\* BatchPostEvents returned: "self.events = []".
FlushReturn ==
  /\ adapter.pc = "Flush"
  /\ batch.pc = "done"
  /\ adapter' = [ events |-> << >>, pc |-> "flushed", redo |-> << >> ]
  /\ UNCHANGED << meter, posted, call, ncalls, reads, calc, batch, emitted >>

\* BatchPostEvents raised: the exception leaves Flush before the assignment.
FlushRaise ==
  /\ adapter.pc = "Flush"
  /\ batch.pc = "raised"
  /\ adapter' = [ adapter EXCEPT !.pc = "raised",
                                 !.redo = Flatten(batch.posts) ]
  /\ UNCHANGED << meter, posted, call, ncalls, reads, calc, batch, emitted >>

AdapterNext ==
  AdapterPostEvent \/ Flush \/ PostXml \/ BatchReturn \/ FlushReturn
    \/ FlushRaise

AdapterSpec == AdapterInit /\ [][AdapterNext]_vars

(* ------------------------------ properties ----------------------------- *)

\* The latest step was a successful call of the named method.
Succeeded(op) == call.op = op /\ call.ok

\* The reading of the latest call, converted to kW h.
ReadingInKWh == ConvertTo(call.quantity, KILOWATT_HOUR).q

\* The uncertainty in effect for the latest call.
UncertaintyInEffect ==
  IF call.uncertainty = NoneQ THEN call.before.uncertainty
  ELSE call.uncertainty

\* The latest call was the first successful reading of a meter that had a
\* last_read_time: the one it was constructed with.
FirstOnSeed ==
  call.ok /\ reads = 1 /\ call.before.last_read_time # None

\* e is an InstantaneousMeasurement at time t carrying quantity q.
IsInst(e, t, q, initial) ==
  /\ e.kind = "instMeasurement"
  /\ e.occur_time = t
  /\ e.quantity = q
  /\ e.initial = initial

\* e is a DurationalMeasurement over (s, t) carrying quantity q with
\* quantity uncertainty u.
IsDur(e, s, t, q, u) ==
  /\ e.kind = "durMeasurement"
  /\ e.start_time = s
  /\ e.end_time = t
  /\ e.quantity = q
  /\ e.quantity_uncertainty = u

\* C1 (as stated): on an instantaneous meter a successful PostRegisterReading
\* emits exactly one InstantaneousMeasurement at `time` with the new register
\* value, marked initial iff no reading preceded it on this meter. (The
\* first reading of a meter that still has its seed last_read_time is left
\* out: the seed stands for a reading.)
C1_InitialIffFirstEver ==
  (Succeeded("PostRegisterReading") /\ ~meter.durational /\ ~FirstOnSeed) =>
    /\ Len(posted) = 1
    /\ IsInst(posted[1], call.time, ReadingInKWh, reads = 1)

\* C1 (amended): the one event is marked initial iff the meter had no
\* last_read_time when the call was made (a fresh unseeded meter, or a meter
\* after Reset).
C1_InitialIffNoLastReadTime ==
  (Succeeded("PostRegisterReading") /\ ~meter.durational) =>
    /\ Len(posted) = 1
    /\ IsInst(posted[1], call.time, ReadingInKWh,
              call.before.last_read_time = None)

\* C1 witness: a register reading posted after earlier readings and a Reset
\* is marked initial again.
C1_Witness ==
  /\ Succeeded("PostRegisterReading")
  /\ ~meter.durational
  /\ reads > 1
  /\ Len(posted) = 1
  /\ posted[1].initial

\* C2 (as stated): on a durational meter the first reading emits nothing
\* and every later PostRegisterReading emits exactly one DurationalMeasurement
\* over (previous last_read_time, time) with quantity new - old register and
\* twice the uncertainty in effect. (The first reading of a meter that still
\* has its seed last_read_time is left out: the seed stands for a reading.)
C2_ZeroIffFirstEver ==
  (Succeeded("PostRegisterReading") /\ meter.durational /\ ~FirstOnSeed) =>
    IF reads = 1
      THEN posted = << >>
      ELSE /\ Len(posted) = 1
           /\ IsDur(posted[1], call.before.last_read_time, call.time,
                    QSub(ReadingInKWh, call.before.register).q,
                    Quantity(RAdd(UncertaintyInEffect.value,
                                  UncertaintyInEffect.value),
                             UncertaintyInEffect.unit))

\* C2 (amended): a PostRegisterReading made while last_read_time is absent
\* emits nothing; one made while it is present emits exactly one
\* DurationalMeasurement over (last_read_time, time) with quantity
\* new - old register and twice the uncertainty in effect.
C2_ZeroIffNoLastReadTime ==
  (Succeeded("PostRegisterReading") /\ meter.durational) =>
    IF call.before.last_read_time = None
      THEN posted = << >>
      ELSE /\ Len(posted) = 1
           /\ IsDur(posted[1], call.before.last_read_time, call.time,
                    QSub(ReadingInKWh, call.before.register).q,
                    Quantity(RAdd(UncertaintyInEffect.value,
                                  UncertaintyInEffect.value),
                             UncertaintyInEffect.unit))

\* C2 witness: a durational event of a register reading with an explicit
\* uncertainty and a register that changed.
C2_Witness ==
  /\ Succeeded("PostRegisterReading")
  /\ meter.durational
  /\ call.uncertainty # NoneQ
  /\ Len(posted) = 1
  /\ posted[1].quantity.value # RInt(0)

\* C3: a successful PostRegisterReading leaves register equal to the reading
\* converted to kW h and last_read_time equal to the reading's time, in both
\* modes and whether or not an event was emitted.
C3_RegisterAdvances ==
  Succeeded("PostRegisterReading") =>
    /\ meter.register = ReadingInKWh
    /\ meter.register.unit = KILOWATT_HOUR
    /\ meter.last_read_time = call.time

\* C3 witness: a durational baseline reading, which emits no event, advanced
\* the register.
C3_Witness ==
  /\ Succeeded("PostRegisterReading")
  /\ posted = << >>
  /\ meter.register.value = RInt(2)
  /\ call.before.register.value = RInt(0)

\* C4: a failed PostRegisterReading or PostIntervalReading leaves register
\* and last_read_time as they were before the call.
C4_FailureLeavesState ==
  (call.op \in {"PostRegisterReading", "PostIntervalReading"} /\ ~call.ok) =>
    /\ meter.register = call.before.register
    /\ meter.last_read_time = call.before.last_read_time

\* C4 witness: the service failed the second of the two events of an
\* interval reading that would have changed register and last_read_time.
C4_Witness ==
  /\ call.op = "PostIntervalReading"
  /\ ~call.ok
  /\ call.err = "IOError"
  /\ Len(posted) = 1
  /\ call.time # call.before.last_read_time
  /\ ~NotStart(call.start_time)
  /\ call.quantity = EnergyReading

\* The start of the latest interval reading after defaulting.
EffectiveStart ==
  IF call.start_time = None THEN call.before.last_read_time
  ELSE call.start_time

\* The energy a reading q over (s, e) stands for: a power reading times the
\* elapsed seconds, in joules; any other reading as it is.
EnergyDelta(q, s, e) ==
  IF IsConvertibleTo(q, WATT)
    THEN Quantity(RMul(RMul(q.value, RInt(factor(q.unit))), RInt(e - s)),
                  JOULE)
    ELSE q

\* The register the latest interval reading should leave when its start is
\* not null: old register + energy delta.
ExpectedRegister ==
  QAdd(call.before.register,
       EnergyDelta(call.quantity, EffectiveStart, call.time))

\* The latest call's quantity is a reading in energy or power units.
ValidReading ==
  \/ IsConvertibleTo(call.quantity, KILOWATT_HOUR)
  \/ IsConvertibleTo(call.quantity, WATT)

\* C5: on an instantaneous meter with no prior reading, PostIntervalReading
\* with an explicit start S and end E emits (S, old register, initial) then
\* (E, old register + delta, not initial); with a null start it emits one
\* event (E, unchanged register, initial).
C5_FirstIntervalEvents ==
  (/\ Succeeded("PostIntervalReading")
   /\ ValidReading
   /\ ~meter.durational
   /\ call.before.last_read_time = None) =>
    IF call.start_time # None
      THEN /\ ExpectedRegister.ok
           /\ Len(posted) = 2
           /\ IsInst(posted[1], call.start_time, call.before.register, TRUE)
           /\ IsInst(posted[2], call.time, ExpectedRegister.q, FALSE)
      ELSE /\ Len(posted) = 1
           /\ IsInst(posted[1], call.time, call.before.register, TRUE)

C7_RegisterAddsDelta ==
  (Succeeded("PostIntervalReading") /\ ValidReading) =>
    IF EffectiveStart # None
      THEN ExpectedRegister.ok /\ meter.register = ExpectedRegister.q
      ELSE meter.register = call.before.register

\* The events with their quantity converted to kW h.
InKWh(events) ==
  [ i \in 1..Len(events) |->
      [ events[i] EXCEPT !.quantity = ConvertTo(@, KILOWATT_HOUR) ] ]

\* The latest interval reading made with its energy delta, in joules, in
\* place of its quantity (no service failure).
AsEnergyReading ==
  IntervalOutcome(call.before,
                  EnergyDelta(call.quantity, EffectiveStart, call.time),
                  call.uncertainty, call.start_time, call.time, 0)

\* C8: with a non-null start, a power reading over an interval that ends
\* after it starts is turned into energy by multiplying by (end - start)
\* seconds: it leaves the register and emits the event quantities (in kW h)
\* that the reading of that energy over the same interval does, and the
\* register grows by that energy.
C8_PowerAsEnergy ==
  (/\ Succeeded("PostIntervalReading")
   /\ EffectiveStart # None
   /\ call.time > EffectiveStart
   /\ IsConvertibleTo(call.quantity, WATT)) =>
    /\ AsEnergyReading.ok
    /\ meter.register = AsEnergyReading.meter.register
    /\ InKWh(posted) = InKWh(AsEnergyReading.events)
    /\ meter.register = ExpectedRegister.q

\* C9: on a durational meter every PostIntervalReading of an energy or power
\* reading that the service does not fail emits exactly one
\* DurationalMeasurement over (start, end) whose quantity is the energy
\* delta and whose uncertainty is the uncertainty in effect, un-doubled.
C9_DurationalInterval ==
  (/\ call.op = "PostIntervalReading"
   /\ meter.durational
   /\ call.err # "IOError"
   /\ ValidReading) =>
    /\ call.ok
    /\ Len(posted) = 1
    /\ posted[1].kind = "durMeasurement"
    /\ posted[1].start_time = EffectiveStart
    /\ posted[1].end_time = call.time
    /\ posted[1].quantity_uncertainty = UncertaintyInEffect
    /\ EffectiveStart # None =>
         posted[1].quantity
           = EnergyDelta(call.quantity, EffectiveStart, call.time)

\* C10: PostIntervalReading with start omitted on a meter with no prior
\* reading does not fail (unless the service does), in either mode: it
\* leaves the register unchanged and sets last_read_time to end.
C10_NullStartCompletes ==
  (/\ call.op = "PostIntervalReading"
   /\ ValidReading
   /\ call.start_time = None
   /\ call.before.last_read_time = None
   /\ call.err # "IOError") =>
    /\ call.ok
    /\ meter.register = call.before.register
    /\ meter.last_read_time = call.time

\* C11: every successful PostIntervalReading sets last_read_time to the
\* call's end time, never to its start time, in either mode and on the first
\* as on a later call.
C11_LastReadTimeIsEnd ==
  Succeeded("PostIntervalReading") => meter.last_read_time = call.time

\* C11 witness: a successful interval reading with an explicit start before
\* its end, on a meter that had a last_read_time different from both.
C11_Witness ==
  /\ Succeeded("PostIntervalReading")
  /\ call.start_time # None
  /\ call.start_time # 0
  /\ call.start_time < call.time
  /\ call.before.last_read_time # None
  /\ call.before.last_read_time # call.time
  /\ meter.last_read_time = call.time

\* The meter state names of the state machine.
HasPriorReading(m) == m.last_read_time # None

IsPost == call.op \in { "PostRegisterReading", "PostIntervalReading" }

\* C12: after any successful post the meter is in HasPriorReading, a failed
\* post does not change which state it is in, and only Reset takes the meter
\* from HasPriorReading to NoPriorReading.
C12_StateMachine ==
  /\ (IsPost /\ call.ok) => HasPriorReading(meter)
  /\ (IsPost /\ ~call.ok) =>
       (HasPriorReading(meter) = HasPriorReading(call.before))
  /\ (HasPriorReading(call.before) /\ ~HasPriorReading(meter)) =>
       call.op = "Reset"

\* C12 witness: a post failed on a meter without a prior reading, after a
\* Reset had taken the meter out of HasPriorReading.
C12_Witness ==
  /\ IsPost
  /\ ~call.ok
  /\ Len(posted) > 0
  /\ reads > 0
  /\ ~HasPriorReading(call.before)
  /\ ~HasPriorReading(meter)

\* C13: Reset sets last_read_time to absent and leaves the register (value
\* and unit), the default uncertainty, the time uncertainty, the durational
\* flag and the variable unchanged; it emits no event.
C13_ResetFrame ==
  call.op = "Reset" =>
    /\ meter.last_read_time = None
    /\ meter.register = call.before.register
    /\ meter.uncertainty = call.before.uncertainty
    /\ meter.time_uncertainty = call.before.time_uncertainty
    /\ meter.durational = call.before.durational
    /\ meter.variable = call.before.variable
    /\ posted = << >>

\* C13 witness: a Reset of a meter that had a last_read_time and a register
\* other than zero.
C13_Witness ==
  /\ call.op = "Reset"
  /\ call.before.last_read_time # None
  /\ call.before.register.value # RInt(0)
  /\ meter.last_read_time = None

\* A newly constructed Meter (no seed last_read_time) of m's mode whose
\* register equals m's.
NewMeterWithRegisterOf(m) ==
  [NewMeter(m.durational, None) EXCEPT !.register = m.register]

\* C14: from any reached state, Reset followed by PostRegisterReading emits
\* the same events and reaches the same state as the same PostRegisterReading
\* on a newly constructed Meter whose register equals the current register:
\* one initial=true event in instantaneous mode, no event in durational mode.
C14_ResetThenRegisterAsNew ==
  [][ (call.op = "Reset" /\ call'.op = "PostRegisterReading") =>
        /\ \E fail \in Failures :
             LET out == RegisterOutcome(NewMeterWithRegisterOf(call.before),
                                        call'.quantity, call'.uncertainty,
                                        call'.time, fail)
             IN  /\ call'.ok = out.ok
                 /\ call'.err = out.err
                 /\ posted' = out.events
                 /\ meter' = out.meter
        /\ call'.ok =>
             IF meter'.durational
               THEN posted' = << >>
               ELSE Len(posted') = 1 /\ posted'[1].initial ]_vars

\* C14 witness: a durational meter with a register other than zero was
\* Reset, and the register reading that followed emitted nothing.
C14_Witness ==
  /\ Succeeded("PostRegisterReading")
  /\ meter.durational
  /\ reads > 1
  /\ call.before.last_read_time = None
  /\ call.before.register.value # RInt(0)
  /\ posted = << >>

\* The latest call of the named operator of units.py is over.
Called(op) == calc.op = op /\ calc.status # "running"

\* C15: q.ConvertTo(u) fails exactly when u's base unit differs from the base
\* unit of q's unit; otherwise it returns a Quantity in unit u whose value is
\* q.value * q.unit.factor / u.factor. A failure returns no value.
C15_ConvertTo ==
  Called("ConvertTo") =>
    /\ (calc.status = "raised") = (base(calc.other.unit) # base(calc.self.unit))
    /\ calc.status = "raised" => calc.val = NoneV
    /\ calc.status = "returned" =>
         /\ calc.val.kind = "quantity"
         /\ calc.val.unit = calc.other.unit
         /\ RMul(calc.val.value, RInt(factor(calc.other.unit)))
              = RMul(calc.self.value, RInt(factor(calc.self.unit)))

\* C15 witness: a quantity in J converted to kW h, its value divided by
\* 3 600 000.
C15_Witness ==
  /\ Called("ConvertTo")
  /\ calc.self = Quantity(RInt(3), JOULE)
  /\ calc.other.unit = KILOWATT_HOUR
  /\ calc.val = QuantityV(Quantity(Rat(1, 1200000), KILOWATT_HOUR))

\* C16: a + b fails whenever the base units of a and b differ; otherwise the
\* result is in a's unit with value a.value + b.ConvertTo(a.unit).value, and
\* (b + a).ConvertTo(a.unit) equals a + b.
C16_Add ==
  Called("add") =>
    LET a == calc.self
        b == Quantity(calc.other.value, calc.other.unit)
    IN  IF base(a.unit) # base(b.unit)
          THEN calc.status = "raised"
          ELSE /\ calc.status = "returned"
               /\ calc.val.kind = "quantity"
               /\ calc.val.unit = a.unit
               /\ calc.val.value = RAdd(a.value, ConvertTo(b, a.unit).q.value)
               /\ RMul(calc.val.value, RInt(factor(a.unit)))
                    = RAdd(RMul(a.value, RInt(factor(a.unit))),
                           RMul(b.value, RInt(factor(b.unit))))
               /\ QAdd(b, a).ok
               /\ QuantityV(ConvertTo(QAdd(b, a).q, a.unit).q) = calc.val

\* C16 witness: a quantity in J added to one in kW h; the sum is in kW h.
C16_Witness ==
  /\ Called("add")
  /\ calc.self = Quantity(Rat(1, 2), KILOWATT_HOUR)
  /\ calc.other = QuantityV(Quantity(RInt(3), JOULE))
  /\ calc.val = QuantityV(Quantity(Rat(600001, 1200000), KILOWATT_HOUR))

\* C17: multiplying or dividing a Quantity by a scalar returns a Quantity
\* with the value scaled (value * s, respectively value / s) and the unit
\* unchanged, for every unit, base units included.
C17_ScalarScales ==
  /\ (Called("mul") /\ calc.other.kind = "scalar") =>
       /\ calc.status = "returned"
       /\ calc.val.kind = "quantity"
       /\ calc.val.value = RMul(calc.self.value, calc.other.value)
       /\ calc.val.unit = calc.self.unit
  /\ (Called("div") /\ calc.other.kind = "scalar"
        /\ calc.other.value # RInt(0)) =>
       /\ calc.status = "returned"
       /\ calc.val.kind = "quantity"
       /\ calc.val.value = RDiv(calc.self.value, calc.other.value)
       /\ calc.val.unit = calc.self.unit

\* The pair of units of the latest call has a declared product.
DeclaredProduct ==
  \/ calc.self.unit = WATT /\ calc.other.unit = SECOND
  \/ calc.self.unit = SECOND /\ calc.other.unit = WATT

\* C18: multiplying a Quantity by a Unit or Quantity whose pair of units has
\* no declared product raises an error; it never returns a value, an empty
\* one included.
C18_UndeclaredProductRaises ==
  (Called("mul") /\ calc.other.kind \in {"unit", "quantity"}
     /\ ~DeclaredProduct) =>
    calc.status = "raised"

\* C20: Quantity division always terminates: with an undeclared pair of
\* units it retries exactly once, after converting the left operand to its
\* base unit, and when the pair is still undeclared it raises instead of
\* retrying again.
C20_DivRetriesOnce ==
  calc.op = "div" =>
    /\ calc.depth <= 1
    /\ (calc.depth = 1 /\ calc.other.kind \in {"unit", "quantity"}) =>
         calc.status # "running"

\* C19: BatchPostEvents on a list of n events ends after exactly ceil(n/100)
\* posts, each post carries at most 100 events, the concatenation of the
\* posted batches is the input list, every event once and in its order; the
\* caller's list is not changed, and n = 0 makes no post.
C19_BatchesPartitionInput ==
  LET n == Len(batch.events)
  IN  /\ batch.events = EventsOf(n)
      /\ \A i \in 1..Len(batch.posts) :
           Len(batch.posts[i]) \in 1..MAX_BATCH_POST_COUNT
      /\ batch.pc = "loop" =>
           Flatten(batch.posts) \o batch.event_list = batch.events
      /\ batch.pc = "done" =>
           /\ Len(batch.posts) = (n + MAX_BATCH_POST_COUNT - 1)
                                   \div MAX_BATCH_POST_COUNT
           /\ Flatten(batch.posts) = batch.events
           /\ n = 0 => batch.posts = << >>

\* C19 witness: more than 200 events went out in three posts, the last one
\* not full.
C19_Witness ==
  /\ batch.pc = "done"
  /\ Len(batch.events) > 2 * MAX_BATCH_POST_COUNT
  /\ Len(batch.posts) = 3
  /\ Len(batch.posts[2]) = MAX_BATCH_POST_COUNT
  /\ Len(batch.posts[3]) < MAX_BATCH_POST_COUNT

\* C21: on an instantaneous Meter that starts with no prior reading, over any
\* sequence of successful PostIntervalReading calls that are contiguous (each
\* start is the previous end) and end later than they start, no two emitted
\* events carry the same occur time.
C21_NoRepeatedOccurTime ==
  emitted.ok =>
    \A i \in 1..Len(emitted.times) : \A j \in 1..Len(emitted.times) :
      i # j => emitted.times[i] # emitted.times[j]

\* C21 witness: two contiguous interval readings, the first with its start
\* and end events, the second with its end event only.
C21_Witness ==
  /\ emitted.ok
  /\ ncalls = 2
  /\ Len(emitted.times) = 3
  /\ emitted.times[2] = call.start_time
  /\ emitted.times[3] = call.time

\* C22: a reading is all-or-nothing with respect to delivered events: when a
\* PostRegisterReading or PostIntervalReading call fails, no event of that
\* call has been delivered to the service.
C22_FailureDeliversNothing ==
  (IsPost /\ ~call.ok /\ ValidReading /\ call.time > EffectiveStart) =>
    posted = << >>

\* The kind of event of a meter's mode.
KindOf(m) == IF m.durational THEN "durMeasurement" ELSE "instMeasurement"

\* C23: every event a Meter emits is of the kind fixed by its mode, a
\* DurationalMeasurement on a durational Meter and an InstantaneousMeasurement
\* on an instantaneous one, and no call changes the mode.
C23_KindFollowsMode ==
  /\ \A i \in 1..Len(posted) : posted[i].kind = KindOf(call.before)
  /\ meter.durational = call.before.durational

\* C23 witness: a durational meter posted a durational event and, in an
\* earlier call, read its first register value without an event.
C23_Witness ==
  /\ IsPost
  /\ call.ok
  /\ meter.durational
  /\ reads = 2
  /\ Len(posted) = 1
  /\ posted[1].kind = "durMeasurement"

\* C24: on an instantaneous Meter, after every successful PostRegisterReading
\* or PostIntervalReading the most recently emitted event has the meter's
\* last_read_time as its occur time and the meter's register as its quantity;
\* the register is always in kW h.
C24_LastEventIsRegister ==
  /\ meter.register.unit = KILOWATT_HOUR
  /\ (IsPost /\ call.ok /\ ~meter.durational) =>
       /\ Len(posted) >= 1
       /\ posted[Len(posted)].kind = "instMeasurement"
       /\ posted[Len(posted)].occur_time = meter.last_read_time
       /\ posted[Len(posted)].quantity = meter.register

\* C24 witness: an interval reading with a power quantity posted two events
\* and moved the register.
C24_Witness ==
  /\ Succeeded("PostIntervalReading")
  /\ ~meter.durational
  /\ call.quantity = PowerReading
  /\ Len(posted) = 2
  /\ meter.register # call.before.register
  /\ posted[2].quantity = meter.register

\* s is an initial part of t.
IsPrefix(s, t) == Len(s) <= Len(t) /\ s = SubSeq(t, 1, Len(s))

\* C25: BatchAdapter is a FIFO queue in front of the service. PostEvent
\* appends the event and does not contact the service; a Flush that succeeds
\* has handed the service every queued event once, in the order queued, and
\* leaves the queue empty; when the service fails during Flush the queue is
\* left as it was, so the events of the batches already delivered are sent
\* again by the next Flush.
C25_AdapterIsFifo ==
  [][ /\ adapter'.pc = "PostEvent" =>
           /\ Len(adapter'.events) = Len(adapter.events) + 1
           /\ SubSeq(adapter'.events, 1, Len(adapter.events)) = adapter.events
           /\ batch' = batch
      /\ adapter'.pc = "flushed" =>
           /\ Flatten(batch.posts) = adapter.events
           /\ batch.events = adapter.events
           /\ adapter'.events = << >>
      /\ adapter'.pc = "raised" =>
           /\ adapter'.events = adapter.events
           /\ adapter'.events = batch.events
           /\ IsPrefix(adapter'.redo, adapter'.events)
           /\ adapter'.redo = Flatten(batch.posts)
      /\ (adapter.pc = "Flush" /\ batch.pc = "done") =>
           IsPrefix(adapter.redo, Flatten(batch.posts)) ]_vars

\* C25 witness: a Flush delivered the first batch and failed on the second;
\* events were queued after it, and the next Flush has delivered all of them,
\* the first batch again.
C25_Witness ==
  /\ adapter.pc = "Flush"
  /\ batch.pc = "done"
  /\ Len(adapter.redo) = MAX_BATCH_POST_COUNT
  /\ Len(adapter.events) > 2 * MAX_BATCH_POST_COUNT
  /\ Flatten(batch.posts) = adapter.events
  /\ batch.posts[1] = adapter.redo

====
